---- MODULE Spec2Model ----
(***************************************************************************)
(* A model of TB.py: the field validators, the validation run check_rules  *)
(* and the derived-column pipeline (add_computed_columns_screening and     *)
(* add_computed_columns_patient).                                          *)
(*                                                                         *)
(* A DataFrame is [cols |-> sequence of column names, rows |-> sequence of *)
(* rows], a row being a function from column name to cell.  Every table of *)
(* the program carries a RangeIndex (xls.parse and pd.merge both produce   *)
(* one), so an index label is the position of the row; positions are       *)
(* 1-based here.  DataFrames are objects: the variables of check_rules     *)
(* hold references into `heap`, so that in-place column assignment and     *)
(* aliasing are visible.                                                   *)
(***************************************************************************)
EXTENDS Integers, Sequences, FiniteSets, TLC

VARIABLES
    xls,                  \* the workbook: sheet name -> table (never written)
    heap,                 \* DataFrame objects: reference -> table
    df_service, df_screen, df_patient, df_visit,   \* references (0: unbound)
    state_township_dict, var_values_dict,          \* load_dropdowns' result
    results,              \* check_rules' local mapping: rule name -> entry
    pc,                   \* position in check_rules
    rule,                 \* number of the next rule of the rule list
    exc,                  \* the exception that left check_rules, if any
    returned              \* what check_rules returned, if it returned

vars == <<xls, heap, df_service, df_screen, df_patient, df_visit,
          state_township_dict, var_values_dict, results, pc, rule, exc, returned>>

(***************************************************************************)
(* Cells.  k is the kind of value: "nan" a missing cell (NaN/NaT), "num" a *)
(* number n, "ts" a Timestamp on day n, "str" a string s that the program  *)
(* only compares as a whole, "txt" a string given by its characters c      *)
(* (the program splits, lower-cases or parses it).                         *)
(***************************************************************************)
NaN == [k |-> "nan", s |-> "", n |-> 0, c |-> <<>>]
Str(x) == [k |-> "str", s |-> x, n |-> 0, c |-> <<>>]
Num(i) == [k |-> "num", s |-> "", n |-> i, c |-> <<>>]
Ts(d) == [k |-> "ts", s |-> "", n |-> d, c |-> <<>>]
Txt(cs) == [k |-> "txt", s |-> "", n |-> 0, c |-> cs]

Range(f) == {f[i] : i \in DOMAIN f}

\* Series.notnull()
notnull(v) == v.k # "nan"

\* Series.isin(values): NaN is found among values that hold a NaN
isin(v, values) == v \in values

\* Python ==, `in` against literals: NaN equals nothing
eq(v, lit) == v.k # "nan" /\ v = lit

(***************************************************************************)
(* Strings by characters.                                                  *)
(***************************************************************************)
Digits == <<"0", "1", "2", "3", "4", "5", "6", "7", "8", "9">>

DigitOf(ch) == CHOOSE d \in 0..9 : Digits[d + 1] = ch

IsDigit(ch) == \E d \in 1..10 : Digits[d] = ch

IsSpace(ch) == ch = " "

\* str.lower(), character by character
LowerChar(ch) ==
    CASE ch = "F" -> "f"
      [] ch = "M" -> "m"
      [] ch = "U" -> "u"
      [] ch = "D" -> "d"
      [] ch = "K" -> "k"
      [] OTHER -> ch

lower(cs) == [i \in 1..Len(cs) |-> LowerChar(cs[i])]

RECURSIVE DecimalOf(_)
\* the decimal digits of a natural number
DecimalOf(n) == IF n < 10 THEN <<Digits[n + 1]>>
                ELSE DecimalOf(n \div 10) \o <<Digits[(n % 10) + 1]>>

\* str(value), for the kinds a name or sex cell holds
str(v) ==
    CASE v.k = "txt" -> v.c
      [] v.k = "nan" -> <<"n", "a", "n">>
      [] v.k = "num" -> DecimalOf(v.n)
      [] OTHER -> <<"?">>

RECURSIVE split(_)
\* str.split(): the maximal runs of non-whitespace characters
split(cs) ==
    IF cs = <<>> THEN <<>>
    ELSE IF IsSpace(cs[1]) THEN split(Tail(cs))
    ELSE LET rest == split(Tail(cs))
         IN  IF Len(cs) > 1 /\ ~IsSpace(cs[2])
             THEN <<(<<cs[1]>> \o rest[1])>> \o Tail(rest)
             ELSE <<(<<cs[1]>>)>> \o rest

RECURSIVE strip(_)
\* leading and trailing whitespace removed (float() ignores it)
strip(cs) ==
    IF cs = <<>> THEN <<>>
    ELSE IF IsSpace(cs[1]) THEN strip(Tail(cs))
    ELSE IF IsSpace(cs[Len(cs)]) THEN strip(SubSeq(cs, 1, Len(cs) - 1))
    ELSE cs

RECURSIVE ParseNat(_)
ParseNat(cs) == IF cs = <<>> THEN 0
                ELSE 10 * ParseNat(SubSeq(cs, 1, Len(cs) - 1)) + DigitOf(cs[Len(cs)])

\* float(value): [ok] FALSE when it raises; [nan] the result is the float nan
float(v) ==
    CASE v.k = "num" -> [ok |-> TRUE, nan |-> FALSE, v |-> v.n]
      [] v.k = "nan" -> [ok |-> TRUE, nan |-> TRUE, v |-> 0]
      [] v.k = "txt" ->
            LET t == strip(v.c)
            IN  IF t # <<>> /\ \A i \in 1..Len(t) : IsDigit(t[i])
                THEN [ok |-> TRUE, nan |-> FALSE, v |-> ParseNat(t)]
                ELSE IF lower(t) = <<"n", "a", "n">>
                THEN [ok |-> TRUE, nan |-> TRUE, v |-> 0]
                ELSE [ok |-> FALSE, nan |-> FALSE, v |-> 0]
      [] OTHER -> [ok |-> FALSE, nan |-> FALSE, v |-> 0]

(***************************************************************************)
(* Dates are day numbers.  EpochDay is 1970-01-01, the day pd.to_datetime  *)
(* gives a bare number; MinDate is check_date's default min_date.          *)
(***************************************************************************)
EpochDay == 0
MinDate == 1
Today == 3

\* pd.to_datetime(value): [ok] FALSE when it raises; [nat] the result is NaT
to_datetime(v) ==
    CASE v.k = "ts" -> [ok |-> TRUE, nat |-> FALSE, d |-> v.n]
      [] v.k = "nan" -> [ok |-> TRUE, nat |-> TRUE, d |-> 0]
      [] v.k = "num" -> [ok |-> TRUE, nat |-> FALSE, d |-> EpochDay]
      [] OTHER -> [ok |-> FALSE, nat |-> FALSE, d |-> 0]

\* pd.to_datetime(series, errors='coerce'): what does not parse becomes NaT
to_datetime_coerce(v) ==
    LET t == to_datetime(v)
    IN  IF t.ok THEN t ELSE [ok |-> TRUE, nat |-> TRUE, d |-> 0]

(***************************************************************************)
(* DataFrames.                                                             *)
(***************************************************************************)
HasCol(df, column) == column \in Range(df.cols)

HasCols(df, columns) == \A j \in 1..Len(columns) : HasCol(df, columns[j])

\* DataFrame.empty: no rows, or no columns
empty(df) == df.rows = <<>> \/ df.cols = <<>>

\* df[col] = values: the column is appended, or overwritten where it stands
SetCol(df, column, values) ==
    [cols |-> IF HasCol(df, column) THEN df.cols ELSE Append(df.cols, column),
     rows |-> [i \in 1..Len(df.rows) |->
                 [cl \in (DOMAIN df.rows[i]) \cup {column} |->
                     IF cl = column THEN values[i] ELSE df.rows[i][cl]]]]

\* the positions of df, in order, whose mask is set: df[mask]
RECURSIVE WhereTrue(_, _)
WhereTrue(mask, i) ==
    IF i > Len(mask) THEN <<>>
    ELSE (IF mask[i] THEN <<i>> ELSE <<>>) \o WhereTrue(mask, i + 1)

\* what a validator gives: the labels of the rows it returns, or the error it raises
Rows(idx) == [err |-> "None", idx |-> idx]
Raise(kind) == [err |-> kind, idx |-> <<>>]

\* a loop over the rows that appends labels to a list: body[i] is [err, app];
\* the first row that raises ends the loop
RECURSIVE LoopFrom(_, _, _)
LoopFrom(body, i, acc) ==
    IF i > Len(body) THEN Rows(acc)
    ELSE IF body[i].err # "None" THEN Raise(body[i].err)
    ELSE LoopFrom(body, i + 1, acc \o body[i].app)

(***************************************************************************)
(* load_dropdowns.  The Dropdown sheet is the same in every run; its rows  *)
(* are numbered from 0 as iloc numbers them.                               *)
(***************************************************************************)
TownshipBlockEnd == 359
ValueBlockStart == 361
ValueBlockEnd == 482

Dropdown ==
    [i \in 0..(ValueBlockEnd + 1) |->
        CASE i = 0 -> <<Str("Yangon"), Str("Hlaing")>>
          [] i = 1 -> <<Str("Yangon"), Str("Insein")>>
          [] i = 2 -> <<Str("Bago"), Str("Pyay")>>
          [] i = 3 -> <<Str("Bago"), NaN>>
          [] i = TownshipBlockEnd -> <<Str("Shan"), Str("Lashio")>>
          [] i = ValueBlockStart -> <<Str("Reporting Month"), Str("Jan")>>
          [] i = ValueBlockStart + 1 -> <<Str("Reporting Month"), Str("Feb")>>
          [] i = ValueBlockStart + 2 -> <<Str("Sex"), Str("F")>>
          [] i = ValueBlockEnd -> <<Str("Sex"), Str("M")>>
          [] OTHER -> <<NaN, NaN>>]

\* iloc[from:to].dropna(), collected into key -> set of values
BlockDict(dropdown_df, from, to) ==
    LET kept == {i \in (DOMAIN dropdown_df) \cap (from..(to - 1)) :
                    notnull(dropdown_df[i][1]) /\ notnull(dropdown_df[i][2])}
        keys == {dropdown_df[i][1] : i \in kept}
    IN  [key \in keys |-> {dropdown_df[i][2] : i \in {j \in kept : dropdown_df[j][1] = key}}]

load_dropdowns(dropdown_df) ==
    <<BlockDict(dropdown_df, 0, TownshipBlockEnd),
      BlockDict(dropdown_df, ValueBlockStart, ValueBlockEnd)>>

\* dict.get(key, [])
DictGet(d, key) == IF key \in DOMAIN d THEN d[key] ELSE {}

(***************************************************************************)
(* The field validators.                                                   *)
(***************************************************************************)
check_state_region(df, st_dict, column) ==
    IF ~HasCol(df, column) THEN Raise("KeyError")
    ELSE Rows(WhereTrue([i \in 1..Len(df.rows) |->
                            ~isin(df.rows[i][column], DOMAIN st_dict)], 1))

\* check_township with two separate tests in place of the nested if/else
check_township_two_ifs(df, st_dict, state_col, township_col) ==
    LoopFrom([i \in 1..Len(df.rows) |->
        IF ~HasCol(df, state_col) \/ ~HasCol(df, township_col)
        THEN [err |-> "KeyError", app |-> <<>>]
        ELSE LET state == df.rows[i][state_col]
                 township == df.rows[i][township_col]
             IN  [err |-> "None",
                  app |-> (IF state \notin DOMAIN st_dict THEN <<i>> ELSE <<>>)
                          \o (IF township \notin DictGet(st_dict, state)
                              THEN <<i>> ELSE <<>>)]], 1, <<>>)

check_township(df, st_dict, state_col, township_col) ==
    LoopFrom([i \in 1..Len(df.rows) |->
        IF ~HasCol(df, state_col) \/ ~HasCol(df, township_col)
        THEN [err |-> "KeyError", app |-> <<>>]
        ELSE LET state == df.rows[i][state_col]
                 township == df.rows[i][township_col]
             IN  IF state \in DOMAIN st_dict
                 THEN IF township \notin st_dict[state]
                      THEN [err |-> "None", app |-> <<i>>]
                      ELSE [err |-> "None", app |-> <<>>]
                 ELSE [err |-> "None", app |-> <<i>>]], 1, <<>>)

check_value_list(df, column, allowed_values) ==
    IF ~HasCol(df, column) THEN Raise("KeyError")
    ELSE Rows(WhereTrue([i \in 1..Len(df.rows) |->
                            ~isin(df.rows[i][column], allowed_values)], 1))

check_date(df, column, min_date, max_date) ==
    IF ~HasCol(df, column) THEN Raise("KeyError")
    ELSE LoopFrom([i \in 1..Len(df.rows) |->
        LET date == to_datetime(df.rows[i][column])
        IN  IF ~date.ok THEN [err |-> "None", app |-> <<i>>]
            ELSE IF ~(~date.nat /\ min_date <= date.d /\ date.d <= max_date)
            THEN [err |-> "None", app |-> <<i>>]
            ELSE [err |-> "None", app |-> <<>>]], 1, <<>>)

check_numeric(df, column, min_val, max_val) ==
    IF ~HasCol(df, column) THEN Raise("KeyError")
    ELSE LoopFrom([i \in 1..Len(df.rows) |->
        LET num == float(df.rows[i][column])
        IN  IF ~num.ok THEN [err |-> "None", app |-> <<i>>]
            ELSE IF ~(~num.nan /\ min_val <= num.v /\ num.v <= max_val)
            THEN [err |-> "None", app |-> <<i>>]
            ELSE [err |-> "None", app |-> <<>>]], 1, <<>>)

female_prefix == {<<"M", "a">>, <<"D", "a", "w">>}
male_prefix == {<<"M", "g">>, <<"U">>, <<"K", "o">>}

check_sex_prefix(df, name_col, sex_col) ==
    LoopFrom([i \in 1..Len(df.rows) |->
        IF ~HasCol(df, name_col) \/ ~HasCol(df, sex_col)
        THEN [err |-> "KeyError", app |-> <<>>]
        ELSE LET name == str(df.rows[i][name_col])
                 sex == lower(str(df.rows[i][sex_col]))
             IN  IF name # <<>> /\ split(name) = <<>>
                 THEN [err |-> "IndexError", app |-> <<>>]
                 ELSE LET prefix == IF name # <<>> THEN split(name)[1] ELSE <<>>
                      IN  [err |-> "None",
                           app |-> (IF prefix \in female_prefix
                                       /\ sex \notin {<<"f", "e", "m", "a", "l", "e">>, <<"f">>}
                                    THEN <<i>> ELSE <<>>)
                                   \o
                                   (IF prefix \in male_prefix
                                       /\ sex \notin {<<"m", "a", "l", "e">>, <<"m">>}
                                    THEN <<i>> ELSE <<>>)]], 1, <<>>)

\* the key of row i: its values on the subset columns (NaN groups with NaN)
KeyOf(df, subset, i) == [j \in 1..Len(subset) |-> df.rows[i][subset[j]]]

\* the hash-table pass for keep='first': only the later row is marked
RECURSIVE duplicated_loop_first(_, _, _, _)
duplicated_loop_first(keys, i, seen, out) ==
    IF i > Len(keys) THEN out
    ELSE IF \E j \in DOMAIN seen : seen[j] = keys[i]
    THEN duplicated_loop_first(keys, i + 1, seen, [out EXCEPT ![i] = TRUE])
    ELSE duplicated_loop_first(keys, i + 1, seen @@ (i :> keys[i]),
                               [out EXCEPT ![i] = FALSE])

\* pandas' hash-table pass for keep=False: a key seen before marks both the
\* row that holds it first and the current row
RECURSIVE duplicated_loop(_, _, _, _)
duplicated_loop(keys, i, seen, out) ==
    IF i > Len(keys) THEN out
    ELSE IF \E j \in DOMAIN seen : seen[j] = keys[i]
    THEN LET first == CHOOSE j \in DOMAIN seen : seen[j] = keys[i]
         IN  duplicated_loop(keys, i + 1, seen,
                             [out EXCEPT ![first] = TRUE, ![i] = TRUE])
    ELSE duplicated_loop(keys, i + 1, seen @@ (i :> keys[i]),
                         [out EXCEPT ![i] = FALSE])

\* df.duplicated(subset=subset, keep=False), as a mask over the rows
duplicated(df, subset) ==
    duplicated_loop([i \in 1..Len(df.rows) |-> KeyOf(df, subset, i)], 1, <<>>,
                    [i \in 1..Len(df.rows) |-> FALSE])

check_duplicate(df, columns) ==
    IF ~empty(df) /\ ~HasCols(df, columns) THEN Raise("KeyError")
    ELSE IF empty(df) THEN Rows(<<>>)
    ELSE Rows(WhereTrue(duplicated(df, columns), 1))

check_registration_match(df, ref_df, column) ==
    IF ~HasCol(df, column) \/ ~HasCol(ref_df, column) THEN Raise("KeyError")
    ELSE Rows(WhereTrue([i \in 1..Len(df.rows) |->
                ~isin(df.rows[i][column],
                      {ref_df.rows[j][column] : j \in 1..Len(ref_df.rows)})], 1))

check_service_point(df, ref_df, column, ref_column) ==
    IF ~HasCol(df, column) \/ ~HasCol(ref_df, ref_column) THEN Raise("KeyError")
    ELSE Rows(WhereTrue([i \in 1..Len(df.rows) |->
                ~isin(df.rows[i][column],
                      {ref_df.rows[j][ref_column] : j \in 1..Len(ref_df.rows)})], 1))

(***************************************************************************)
(* The derived-column pipeline.  A pipeline function works on a DataFrame  *)
(* object: `St` is its progress, the error raised so far ("None": none),   *)
(* the table `df` is bound to, whether `df` still is the object passed in  *)
(* (an in-place assignment writes to the caller's object) and the contents *)
(* of the object passed in.                                                *)
(***************************************************************************)
St(err, df, same, arg) == [err |-> err, df |-> df, same |-> same, arg |-> arg]

\* df[col] = values on the table df is bound to
Assign(st, column, values) ==
    LET new == SetCol(st.df, column, values)
    IN  St("None", new, st.same, IF st.same THEN new ELSE st.arg)

\* df = <a new table>
Rebind(st, new) == St("None", new, FALSE, st.arg)

Fail(st, kind) == St(kind, st.df, st.same, st.arg)

\* one statement after another: a raised error skips what follows
Then(st, Stmt(_)) == IF st.err # "None" THEN st ELSE Stmt(st)

\* pd.merge(left, right[[on, column]], on=on, how='left') where `column` is
\* no column of left: every left row, in order, once per right row with an
\* equal key (a missing key equals a missing key), in the right table's
\* order; a left row with no equal key once, with `column` missing
RECURSIVE MergeRows(_, _, _, _, _)
MergeRows(left, right, on, column, i) ==
    IF i > Len(left.rows) THEN <<>>
    ELSE LET lrow == left.rows[i]
             hits == WhereTrue([j \in 1..Len(right.rows) |->
                                   right.rows[j][on] = lrow[on]], 1)
             With(v) == [cl \in (DOMAIN lrow) \cup {column} |->
                            IF cl = column THEN v ELSE lrow[cl]]
         IN  (IF hits = <<>> THEN <<With(NaN)>>
              ELSE [h \in 1..Len(hits) |-> With(right.rows[hits[h]][column])])
             \o MergeRows(left, right, on, column, i + 1)

merge(left, right, on, column) ==
    [cols |-> Append(left.cols, column),
     rows |-> MergeRows(left, right, on, column, 1)]

ExamCols == <<"Examination results_Sputum", "Examination results_CXR",
              "Examination results_Gene Xpert", "Examination results_Truenet">>
TBResults == {Str("Clinically diagnosed TB"), Str("Bact confirmed TB")}
DupCols == <<"Service delivery point", "Name", "Age_Year", "Sex", "Screening Date">>

Bool2Int(b) == IF b THEN Num(1) ELSE Num(0)

result_check(row) ==
    LET sputum_positive == eq(row["Examination results_Sputum"], Str("Positive"))
        gene_xpert == \E v \in {"T", "TT", "TI", "RR"} :
                          eq(row["Examination results_Gene Xpert"], Str(v))
        truenet == \E v \in {"VT", "RR", "TI"} :
                          eq(row["Examination results_Truenet"], Str(v))
    IN  IF sputum_positive \/ gene_xpert \/ truenet
        THEN IF eq(row["Result"], Str("Bact confirmed TB")) THEN Str("F") ELSE Str("T")
        ELSE Str("T")

\* lines 93-97
ScreenPresumptive(st) ==
    IF ~HasCols(st.df, ExamCols) \/ ~HasCol(st.df, "Result") THEN Fail(st, "KeyError")
    ELSE Assign(st, "Presumptive TB referred",
            [i \in 1..Len(st.df.rows) |->
                Bool2Int((\E j \in 1..Len(ExamCols) : notnull(st.df.rows[i][ExamCols[j]]))
                         \/ isin(st.df.rows[i]["Result"], TBResults))])

\* lines 100-103
ScreenDetected(st) ==
    Assign(st, "TB Detected",
        [i \in 1..Len(st.df.rows) |->
            Bool2Int(isin(st.df.rows[i]["Result"], TBResults)
                     /\ st.df.rows[i]["Presumptive TB referred"] = Num(1))])

\* lines 106-109
ScreenBactConfirmed(st) ==
    Assign(st, "Bact confirmed TB",
        [i \in 1..Len(st.df.rows) |->
            Bool2Int(eq(st.df.rows[i]["Result"], Str("Bact confirmed TB"))
                     /\ st.df.rows[i]["Presumptive TB referred"] = Num(1))])

\* lines 112-121.  DataFrame.apply on a table without rows depends on the
\* pandas build: an old one hands back a table, which the column assignment
\* refuses (legacy_apply); a newer one hands back an empty column.
ScreenResultCheck(st, legacy_apply) ==
    IF st.df.rows = <<>> /\ legacy_apply THEN Fail(st, "ValueError")
    ELSE Assign(st, "Result check",
            [i \in 1..Len(st.df.rows) |-> result_check(st.df.rows[i])])

\* lines 124-125
ScreenDuplicateCheck(st) ==
    IF ~empty(st.df) /\ ~HasCols(st.df, DupCols) THEN Fail(st, "KeyError")
    ELSE LET dupes == IF empty(st.df) THEN <<>> ELSE duplicated(st.df, DupCols)
         IN  Assign(st, "Duplicate check",
                [i \in 1..Len(st.df.rows) |->
                    IF dupes[i] THEN Str("To recheck for duplication") ELSE Str("")])

\* lines 128-136: the column of `merged` is assigned to df label by label,
\* and the labels of `merged` are its own positions
ScreenOngoing(st, ref_patient) ==
    IF ~empty(ref_patient)
    THEN IF ~HasCols(ref_patient, <<"Registration number", "Enrolled Date">>)
            \/ ~HasCol(st.df, "Registration number")
            \/ ~HasCol(st.df, "Screening Date")
         THEN Fail(st, "KeyError")
         ELSE LET merged == merge(st.df, ref_patient, "Registration number", "Enrolled Date")
                  ongoing == [m \in 1..Len(merged.rows) |->
                      LET sd == to_datetime_coerce(merged.rows[m]["Screening Date"])
                          ed == to_datetime_coerce(merged.rows[m]["Enrolled Date"])
                      IN  IF (~sd.nat /\ ~ed.nat /\ sd.d > ed.d)
                             /\ notnull(merged.rows[m]["Enrolled Date"])
                          THEN Str("Ongoing TB case") ELSE Str("")]
              IN  Assign(st, "Ongoing TB case check",
                     [i \in 1..Len(st.df.rows) |->
                         IF i <= Len(ongoing) THEN ongoing[i] ELSE NaN])
    ELSE Assign(st, "Ongoing TB case check", [i \in 1..Len(st.df.rows) |-> Str("")])

add_computed_columns_screening(df, ref_patient, legacy_apply) ==
    LET s1 == ScreenPresumptive(St("None", df, TRUE, df))
        s2 == Then(s1, ScreenDetected)
        s3 == Then(s2, ScreenBactConfirmed)
        s4 == Then(s3, LAMBDA st : ScreenResultCheck(st, legacy_apply))
        s5 == Then(s4, ScreenDuplicateCheck)
    IN  Then(s5, LAMBDA st : ScreenOngoing(st, ref_patient))

\* line 142
PatTBDT1(st) ==
    IF ~HasCol(st.df, "TB_Type of patient") THEN Fail(st, "KeyError")
    ELSE Assign(st, "TBDT_1",
            [i \in 1..Len(st.df.rows) |->
                Bool2Int(isin(st.df.rows[i]["TB_Type of patient"],
                              {Str("New"), Str("Relapse")}))])

\* lines 145-146
PatTBDT3c(st) ==
    IF ~HasCol(st.df, "Channel_Screening") THEN Fail(st, "KeyError")
    ELSE Assign(st, "TBDT_3c",
            [i \in 1..Len(st.df.rows) |->
                Bool2Int(st.df.rows[i]["TBDT_1"] = Num(1)
                         /\ isin(st.df.rows[i]["Channel_Screening"],
                                 {Str("Volunteer"), Str("ICHV")}))])

\* line 149
PatTBP1(st) ==
    IF ~HasCols(st.df, <<"TPT_Treatment Regimen", "TPT_Start date">>)
    THEN Fail(st, "KeyError")
    ELSE Assign(st, "TBP-1",
            [i \in 1..Len(st.df.rows) |->
                Bool2Int(notnull(st.df.rows[i]["TPT_Treatment Regimen"])
                         /\ notnull(st.df.rows[i]["TPT_Start date"]))])

\* lines 152-153
PatTBHIV5(st) ==
    IF ~HasCol(st.df, "HIV status") THEN Fail(st, "KeyError")
    ELSE Assign(st, "TBHIV_5",
            [i \in 1..Len(st.df.rows) |->
                Bool2Int(st.df.rows[i]["TBDT_1"] = Num(1)
                         /\ isin(st.df.rows[i]["HIV status"],
                                 {Str("Positive"), Str("Negative")}))])

outcome_vals == {Str("Cure"), Str("Complete"), Str("Cured"), Str("Completed"),
                 Str("Treatment Completed")}

\* lines 156-157
PatTBO2aN(st) ==
    IF HasCol(st.df, "TBO2a_D")
    THEN IF ~HasCol(st.df, "TB_Treatment Outcome") THEN Fail(st, "KeyError")
         ELSE Assign(st, "TBO2a_N",
                [i \in 1..Len(st.df.rows) |->
                    Bool2Int(eq(st.df.rows[i]["TBO2a_D"], Num(1))
                             /\ isin(st.df.rows[i]["TB_Treatment Outcome"], outcome_vals))])
    ELSE Assign(st, "TBO2a_N", [i \in 1..Len(st.df.rows) |-> Num(0)])

\* lines 160-164: the merge brings the column "Channel" (the suffix
\* "_Screening" would apply only to a "Channel" column of df itself)
PatChannel(st, ref_screening) ==
    IF ~empty(ref_screening)
    THEN IF ~HasCols(ref_screening, <<"Registration number", "Channel">>)
            \/ ~HasCol(st.df, "Registration number")
         THEN Fail(st, "KeyError")
         ELSE Rebind(st, merge(st.df, ref_screening, "Registration number", "Channel"))
    ELSE Assign(st, "Channel_Screening", [i \in 1..Len(st.df.rows) |-> Str("")])

\* lines 167-172
PatBC(st, ref_screening) ==
    IF ~empty(ref_screening) /\ HasCol(ref_screening, "Bact confirmed TB")
    THEN LET m == merge(st.df, ref_screening, "Registration number", "Bact confirmed TB")
         IN  Assign(Rebind(st, m), "BC_Screening",
                [i \in 1..Len(m.rows) |-> m.rows[i]["Bact confirmed TB"]])
    ELSE Assign(st, "BC_Screening", [i \in 1..Len(st.df.rows) |-> Str("")])

\* lines 175-179
PatTBDetected(st, ref_screening) ==
    IF ~empty(ref_screening) /\ HasCol(ref_screening, "TB Detected")
    THEN Rebind(st, merge(st.df, ref_screening, "Registration number", "TB Detected"))
    ELSE Assign(st, "TB Detected_Screening", [i \in 1..Len(st.df.rows) |-> Str("")])

\* lines 182-192: [err] a column the row lacks; NaN is in no list; a float
\* nan is not >= 15
regimen_check(row) ==
    IF "TB_Treatment Regimen" \notin DOMAIN row THEN [err |-> "KeyError", v |-> NaN]
    ELSE IF eq(row["TB_Treatment Regimen"], Str("IR"))
            /\ ~(\E v \in {"New", ""} : eq(row["TB_Type of patient"], Str(v)))
    THEN [err |-> "None", v |-> Str("Fail")]
    ELSE IF eq(row["TB_Treatment Regimen"], Str("CR"))
    THEN IF "Age_Year" \notin DOMAIN row THEN [err |-> "None", v |-> Str("Fail")]
         ELSE LET age == float(row["Age_Year"])
              IN  IF ~age.ok THEN [err |-> "None", v |-> Str("Fail")]
                  ELSE IF ~age.nan /\ age.v >= 15 THEN [err |-> "None", v |-> Str("Fail")]
                  ELSE [err |-> "None", v |-> Str("OK")]
    ELSE [err |-> "None", v |-> Str("OK")]

\* lines 196-200
tod_check(row) ==
    IF eq(row["BC_Screening"], Num(1))
    THEN IF "TB_Type of Disease" \notin DOMAIN row THEN [err |-> "KeyError", v |-> NaN]
         ELSE IF ~(\E v \in {"P", "Pulmonary TB"} : eq(row["TB_Type of Disease"], Str(v)))
         THEN [err |-> "None", v |-> Str("Fail")]
         ELSE [err |-> "None", v |-> Str("OK")]
    ELSE [err |-> "None", v |-> Str("OK")]

\* lines 204-207
outcome_check(row) ==
    IF "TB_Treatment Outcome" \notin DOMAIN row THEN [err |-> "KeyError", v |-> NaN]
    ELSE IF (\E v \in {"Cure", "Cured"} : eq(row["TB_Treatment Outcome"], Str(v)))
            /\ ~(IF "BC" \in DOMAIN row THEN eq(row["BC"], Num(1)) ELSE FALSE)
    THEN [err |-> "None", v |-> Str("Fail")]
    ELSE [err |-> "None", v |-> Str("OK")]

\* df[column] = df.apply(fn, axis=1), `out` being fn's outcome row by row
Apply(st, column, out, legacy_apply) ==
    IF st.df.rows = <<>>
    THEN IF legacy_apply THEN Fail(st, "ValueError") ELSE Assign(st, column, <<>>)
    ELSE IF \E i \in 1..Len(out) : out[i].err # "None"
    THEN Fail(st, "KeyError")
    ELSE Assign(st, column, [i \in 1..Len(out) |-> out[i].v])

\* lines 211-215
PatTin(st, ref_screening) ==
    IF ~empty(ref_screening)
    THEN Assign(st, "Tin check",
            [i \in 1..Len(st.df.rows) |->
                IF ~isin(st.df.rows[i]["Registration number"],
                         {ref_screening.rows[j]["Registration number"] :
                              j \in 1..Len(ref_screening.rows)})
                THEN Str("Yes") ELSE Str("")])
    ELSE Assign(st, "Tin check", [i \in 1..Len(st.df.rows) |-> Str("")])

add_computed_columns_patient(df, ref_screening, legacy_apply) ==
    LET s1 == PatTBDT1(St("None", df, TRUE, df))
        s2 == Then(s1, PatTBDT3c)
        s3 == Then(s2, PatTBP1)
        s4 == Then(s3, PatTBHIV5)
        s5 == Then(s4, PatTBO2aN)
        s6 == Then(s5, LAMBDA st : PatChannel(st, ref_screening))
        s7 == Then(s6, LAMBDA st : PatBC(st, ref_screening))
        s8 == Then(s7, LAMBDA st : PatTBDetected(st, ref_screening))
        s9 == Then(s8, LAMBDA st : Apply(st, "Regimen check",
                    [i \in 1..Len(st.df.rows) |-> regimen_check(st.df.rows[i])], legacy_apply))
        s10 == Then(s9, LAMBDA st : Apply(st, "Type of Disease check",
                    [i \in 1..Len(st.df.rows) |-> tod_check(st.df.rows[i])], legacy_apply))
        s11 == Then(s10, LAMBDA st : Apply(st, "Outcome check",
                    [i \in 1..Len(st.df.rows) |-> outcome_check(st.df.rows[i])], legacy_apply))
    IN  Then(s11, LAMBDA st : PatTin(st, ref_screening))

(***************************************************************************)
(* check_rules: the fixed rule list, lines 231-255, in the order they run. *)
(***************************************************************************)
RuleNames ==
    <<"Screening_invalid_state", "Screening_invalid_township",
      "Screening_invalid_service_point", "Screening_invalid_reporting_month",
      "Screening_invalid_screening_date", "Screening_invalid_age_year",
      "Screening_sex_prefix", "Screening_invalid_registration_number",
      "Screening_duplicates",
      "Patient_invalid_state", "Patient_invalid_township",
      "Patient_invalid_service_point",
      "Patient_invalid_registration_number_duplicate",
      "Patient_invalid_age_year", "Patient_sex_prefix",
      "Visit_invalid_registration_number", "Visit_invalid_visit_date",
      "Service_invalid_state", "Service_invalid_township">>

\* the sheet each rule validates
RuleSheet ==
    [i \in 1..Len(RuleNames) |->
        IF i <= 9 THEN "Screening" ELSE IF i <= 15 THEN "Patient data"
        ELSE IF i <= 17 THEN "Visit data" ELSE "Service Point"]

\* the columns each rule reads, as <<sheet, column>>
RuleReads ==
    <<{<<"Screening", "State / Region">>},
      {<<"Screening", "State / Region">>, <<"Screening", "Township">>},
      {<<"Screening", "Service delivery point">>,
       <<"Service Point", "Service delivery point code">>},
      {<<"Screening", "Reporting Month">>},
      {<<"Screening", "Screening Date">>},
      {<<"Screening", "Age_Year">>},
      {<<"Screening", "Name">>, <<"Screening", "Sex">>},
      {<<"Screening", "Registration number">>, <<"Patient data", "Registration number">>},
      {<<"Screening", DupCols[j]>> : j \in 1..Len(DupCols)},
      {<<"Patient data", "State/region">>},
      {<<"Patient data", "State/region">>, <<"Patient data", "Township">>},
      {<<"Patient data", "Service Delivery point">>,
       <<"Service Point", "Service delivery point code">>},
      {<<"Patient data", "Registration number">>},
      {<<"Patient data", "Age_Year">>},
      {<<"Patient data", "Name">>, <<"Patient data", "Sex">>},
      {<<"Visit data", "Registration number">>, <<"Patient data", "Registration number">>},
      {<<"Visit data", "Visit date">>},
      {<<"Service Point", "State/Region">>},
      {<<"Service Point", "State/Region">>, <<"Service Point", "Township">>}>>

\* the call of rule i on the tables check_rules parsed
Validate(i, service, screen, patient, visit, st_dict, vv_dict) ==
    CASE i = 1 -> check_state_region(screen, st_dict, "State / Region")
      [] i = 2 -> check_township(screen, st_dict, "State / Region", "Township")
      [] i = 3 -> check_service_point(screen, service, "Service delivery point",
                                      "Service delivery point code")
      [] i = 4 -> check_value_list(screen, "Reporting Month",
                                   DictGet(vv_dict, Str("Reporting Month")))
      [] i = 5 -> check_date(screen, "Screening Date", MinDate, Today)
      [] i = 6 -> check_numeric(screen, "Age_Year", 0, 100)
      [] i = 7 -> check_sex_prefix(screen, "Name", "Sex")
      [] i = 8 -> check_registration_match(screen, patient, "Registration number")
      [] i = 9 -> check_duplicate(screen, DupCols)
      [] i = 10 -> check_state_region(patient, st_dict, "State/region")
      [] i = 11 -> check_township(patient, st_dict, "State/region", "Township")
      [] i = 12 -> check_service_point(patient, service, "Service Delivery point",
                                       "Service delivery point code")
      [] i = 13 -> check_duplicate(patient, <<"Registration number">>)
      [] i = 14 -> check_numeric(patient, "Age_Year", 0, 100)
      [] i = 15 -> check_sex_prefix(patient, "Name", "Sex")
      [] i = 16 -> check_registration_match(visit, patient, "Registration number")
      [] i = 17 -> check_date(visit, "Visit date", MinDate, Today)
      [] i = 18 -> check_state_region(service, st_dict, "State/Region")
      [] i = 19 -> check_township(service, st_dict, "State/Region", "Township")

\* an entry of the result mapping: the labels of the failing rows, or the
\* reference of a computed table
RowsEntry(idx) == [idx |-> idx, ref |-> 0]
TableEntry(ref) == [idx |-> <<>>, ref |-> ref]

NoExc == [kind |-> "None", at |-> ""]

\* the references of the objects xls.parse creates
ServiceArg == 1
ScreenArg == 2
PatientArg == 3
VisitArg == 4

\* lines 221-227
Parse ==
    /\ pc = "start"
    /\ heap' = <<xls["Service Point"], xls["Screening"], xls["Patient data"],
                 xls["Visit data"]>>
    /\ df_service' = ServiceArg
    /\ df_screen' = ScreenArg
    /\ df_patient' = PatientArg
    /\ df_visit' = VisitArg
    /\ state_township_dict' = load_dropdowns(Dropdown)[1]
    /\ var_values_dict' = load_dropdowns(Dropdown)[2]
    /\ results' = <<>>
    /\ rule' = 1
    /\ pc' = "rules"
    /\ UNCHANGED <<xls, exc, returned>>

\* one of lines 231-255: the validator's rows are stored under the rule's
\* name; an error it raises leaves check_rules
RunRule ==
    /\ pc = "rules"
    /\ rule <= Len(RuleNames)
    /\ LET r == Validate(rule, heap[df_service], heap[df_screen], heap[df_patient],
                         heap[df_visit], state_township_dict, var_values_dict)
       IN  IF r.err # "None"
           THEN /\ exc' = [kind |-> r.err, at |-> RuleNames[rule]]
                /\ pc' = "raised"
                /\ UNCHANGED <<results, rule>>
           ELSE /\ results' = (RuleNames[rule] :> RowsEntry(r.idx)) @@ results
                /\ rule' = rule + 1
                /\ pc' = IF rule = Len(RuleNames) THEN "screening" ELSE "rules"
                /\ exc' = exc
    /\ UNCHANGED <<xls, heap, df_service, df_screen, df_patient, df_visit,
                   state_township_dict, var_values_dict, returned>>

\* the object a pipeline call leaves df bound to: the one passed in, or a new one
Bind(st, ref) == IF st.same THEN ref ELSE Len(heap) + 1

HeapAfter(st, ref) ==
    IF st.same THEN [heap EXCEPT ![ref] = st.arg]
    ELSE Append([heap EXCEPT ![ref] = st.arg], st.df)

\* line 258
AddComputedScreening ==
    /\ pc = "screening"
    /\ \E legacy_apply \in BOOLEAN :
         LET st == add_computed_columns_screening(heap[df_screen], heap[df_patient],
                                                  legacy_apply)
         IN  /\ heap' = HeapAfter(st, df_screen)
             /\ IF st.err # "None"
                THEN /\ exc' = [kind |-> st.err, at |-> "add_computed_columns_screening"]
                     /\ pc' = "raised"
                     /\ df_screen' = df_screen
                ELSE /\ df_screen' = Bind(st, df_screen)
                     /\ pc' = "patient"
                     /\ exc' = exc
    /\ UNCHANGED <<xls, df_service, df_patient, df_visit, state_township_dict,
                   var_values_dict, results, rule, returned>>

\* line 259
AddComputedPatient ==
    /\ pc = "patient"
    /\ \E legacy_apply \in BOOLEAN :
         LET st == add_computed_columns_patient(heap[df_patient], heap[df_screen],
                                                legacy_apply)
         IN  /\ heap' = HeapAfter(st, df_patient)
             /\ IF st.err # "None"
                THEN /\ exc' = [kind |-> st.err, at |-> "add_computed_columns_patient"]
                     /\ pc' = "raised"
                     /\ df_patient' = df_patient
                ELSE /\ df_patient' = Bind(st, df_patient)
                     /\ pc' = "store"
                     /\ exc' = exc
    /\ UNCHANGED <<xls, df_service, df_screen, df_visit, state_township_dict,
                   var_values_dict, results, rule, returned>>

\* lines 261-264
Return ==
    /\ pc = "store"
    /\ results' = ("Screening_with_computed" :> TableEntry(df_screen))
                  @@ ("Patient_with_computed" :> TableEntry(df_patient)) @@ results
    /\ returned' = results'
    /\ pc' = "returned"
    /\ UNCHANGED <<xls, heap, df_service, df_screen, df_patient, df_visit,
                   state_township_dict, var_values_dict, rule, exc>>

Next == Parse \/ RunRule \/ AddComputedScreening \/ AddComputedPatient \/ Return

(***************************************************************************)
(* The workbooks a run starts from.  Sheets are drawn from families that   *)
(* vary a few columns of a few rows around a valid row, each family        *)
(* exercising one part of the program.  No sheet carries a column that a   *)
(* merge would bring in from the other sheet, so pd.merge never has to     *)
(* rename an overlapping column.                                           *)
(***************************************************************************)
MaxRows == 2         \* rows of a sheet in the validator families
MaxJoinRows == 2     \* rows of a sheet in the join family
MaxNameLen == 2      \* characters of a name in the name family

ScreenCols ==
    <<"State / Region", "Township", "Service delivery point", "Reporting Month",
      "Screening Date", "Age_Year", "Name", "Sex", "Registration number",
      "Examination results_Sputum", "Examination results_CXR",
      "Examination results_Gene Xpert", "Examination results_Truenet",
      "Result", "Channel">>

ScreenRow ==
    [cl \in Range(ScreenCols) |->
        CASE cl = "State / Region" -> Str("Yangon")
          [] cl = "Township" -> Str("Hlaing")
          [] cl = "Service delivery point" -> Str("SP1")
          [] cl = "Reporting Month" -> Str("Jan")
          [] cl = "Screening Date" -> Ts(2)
          [] cl = "Age_Year" -> Num(30)
          [] cl = "Name" -> Txt(<<"x">>)
          [] cl = "Sex" -> Txt(<<"F">>)
          [] cl = "Registration number" -> Str("R1")
          [] cl = "Result" -> Str("No TB")
          [] cl = "Channel" -> Str("ICHV")
          [] OTHER -> NaN]

PatientCols ==
    <<"State/region", "Township", "Service Delivery point", "Registration number",
      "Age_Year", "Name", "Sex", "Enrolled Date", "TB_Type of patient",
      "Channel_Screening", "TPT_Treatment Regimen", "TPT_Start date", "HIV status",
      "TB_Treatment Outcome", "TB_Treatment Regimen", "TB_Type of Disease">>

PatientRow ==
    [cl \in Range(PatientCols) |->
        CASE cl = "State/region" -> Str("Yangon")
          [] cl = "Township" -> Str("Insein")
          [] cl = "Service Delivery point" -> Str("SP1")
          [] cl = "Registration number" -> Str("R1")
          [] cl = "Age_Year" -> Num(30)
          [] cl = "Name" -> Txt(<<"U", " ", "x">>)
          [] cl = "Sex" -> Txt(<<"M">>)
          [] cl = "Enrolled Date" -> Ts(1)
          [] cl = "TB_Type of patient" -> Str("New")
          [] cl = "Channel_Screening" -> Str("Volunteer")
          [] cl = "HIV status" -> Str("Negative")
          [] cl = "TB_Treatment Outcome" -> Str("Cured")
          [] cl = "TB_Treatment Regimen" -> Str("IR")
          [] cl = "TB_Type of Disease" -> Str("P")
          [] OTHER -> NaN]

VisitCols == <<"Registration number", "Visit date">>
VisitRow == [cl \in Range(VisitCols) |->
                IF cl = "Visit date" THEN Ts(2) ELSE Str("R1")]

ServiceCols == <<"State/Region", "Township", "Service delivery point code">>
ServiceRow ==
    [cl \in Range(ServiceCols) |->
        CASE cl = "State/Region" -> Str("Bago")
          [] cl = "Township" -> Str("Pyay")
          [] OTHER -> Str("SP1")]

Table(cols, rows) == [cols |-> cols, rows |-> rows]

\* the sequences of at most n elements of S
SeqsUpTo(S, n) == UNION {[1..m -> S] : m \in 0..n}

\* row with some cells replaced
With2(row, c1, v1, c2, v2) == [row EXCEPT ![c1] = v1, ![c2] = v2]

Workbook(service, screen, patient, visit) ==
    [cl \in {"Service Point", "Screening", "Patient data", "Visit data"} |->
        CASE cl = "Service Point" -> service
          [] cl = "Screening" -> screen
          [] cl = "Patient data" -> patient
          [] OTHER -> visit]

DefaultService == Table(ServiceCols, <<ServiceRow>>)
DefaultScreen == Table(ScreenCols, <<ScreenRow>>)
DefaultPatient == Table(PatientCols, <<PatientRow>>)
DefaultVisit == Table(VisitCols, <<VisitRow>>)

\* the join family: registration numbers and dates on both sides
JoinScreenRows ==
    {With2(ScreenRow, "Registration number", Str("R1"), "Screening Date", Ts(3)),
     With2(ScreenRow, "Registration number", Str("R1"), "Screening Date", Ts(1)),
     With2(ScreenRow, "Registration number", Str("R2"), "Screening Date", Ts(1))}

JoinPatientRows ==
    {With2(PatientRow, "Registration number", Str("R1"), "Enrolled Date", Ts(2)),
     With2(PatientRow, "Registration number", Str("R2"), "Enrolled Date", Ts(2)),
     With2(PatientRow, "Registration number", Str("R1"), "Enrolled Date", NaN)}

JoinFamily ==
    {Workbook(DefaultService, Table(ScreenCols, sr), Table(PatientCols, pr), DefaultVisit) :
        sr \in SeqsUpTo(JoinScreenRows, MaxJoinRows),
        pr \in SeqsUpTo(JoinPatientRows, MaxJoinRows)}

\* the name family: one Screening row, every name over a small alphabet
NameAlphabet == {" ", "M", "a", "U"}
Names == {Txt(cs) : cs \in SeqsUpTo(NameAlphabet, MaxNameLen)} \cup {NaN}
Sexes == {Txt(<<"F">>), Txt(<<"m">>), NaN}

NameFamily ==
    {Workbook(DefaultService,
              Table(ScreenCols, <<With2(ScreenRow, "Name", nm, "Sex", sx)>>),
              DefaultPatient, DefaultVisit) :
        nm \in Names, sx \in Sexes}

\* the validator families: rows that break one rule or another
BadScreenRows ==
    {ScreenRow,
     With2(ScreenRow, "State / Region", Str("Nowhere"), "Reporting Month", NaN),
     With2(ScreenRow, "Township", Str("Pyay"), "Service delivery point", Str("SP9")),
     With2(ScreenRow, "Screening Date", Str("abc"), "Age_Year", Num(150)),
     With2(ScreenRow, "Name", Txt(<<"M", "a", " ", "x">>), "Sex", Txt(<<"m">>)),
     With2(ScreenRow, "Age_Year", Txt(<<"a", "b">>), "Screening Date", Ts(4))}

BadPatientRows ==
    {PatientRow,
     With2(PatientRow, "State/region", NaN, "Age_Year", Txt(<<"5", "0">>)),
     With2(PatientRow, "Township", Str("Lashio"), "Sex", Txt(<<"F">>)),
     With2(PatientRow, "Registration number", Str("R2"), "Age_Year", NaN)}

BadVisitRows ==
    {VisitRow,
     With2(VisitRow, "Registration number", Str("R9"), "Visit date", Ts(4)),
     With2(VisitRow, "Registration number", NaN, "Visit date", Num(5))}

BadServiceRows ==
    {ServiceRow,
     With2(ServiceRow, "State/Region", Str("Shan"), "Township", Str("Lashio")),
     With2(ServiceRow, "Township", NaN, "Service delivery point code", Str("SP2"))}

ScreenFamily ==
    {Workbook(DefaultService, Table(ScreenCols, sr), DefaultPatient, DefaultVisit) :
        sr \in SeqsUpTo(BadScreenRows, MaxRows)}

PatientFamily ==
    {Workbook(DefaultService, DefaultScreen, Table(PatientCols, pr), DefaultVisit) :
        pr \in SeqsUpTo(BadPatientRows, MaxRows)}

VisitFamily ==
    {Workbook(Table(ServiceCols, sv), DefaultScreen, DefaultPatient, Table(VisitCols, vr)) :
        sv \in SeqsUpTo(BadServiceRows, MaxRows), vr \in SeqsUpTo(BadVisitRows, MaxRows)}

\* the regimen family: one Patient row, Screening empty or not
Regimens == {Str("IR"), Str("CR"), Str("Other"), NaN}
PatientTypes == {Str("New"), Str("Relapse"), Str(""), NaN}
Ages == {Num(10), Num(15), Num(20), Txt(<<"2", "0">>), Txt(<<"a", "b">>), NaN}
Channels == {Str("Volunteer"), Str("Clinic")}

RegimenFamily ==
    {Workbook(DefaultService, Table(ScreenCols, sr),
              Table(PatientCols,
                    <<[With2(PatientRow, "TB_Treatment Regimen", rg, "TB_Type of patient", ty)
                          EXCEPT !["Age_Year"] = ag, !["Channel_Screening"] = ch]>>),
              DefaultVisit) :
        sr \in {<<>>, <<ScreenRow>>}, rg \in Regimens, ty \in PatientTypes,
        ag \in Ages, ch \in Channels}

\* the column family: a sheet lacks one column, or Patient carries the
\* optional columns TBO2a_D and BC
Without(df, column) ==
    [cols |-> SelectSeq(df.cols, LAMBDA cl : cl # column),
     rows |-> [i \in 1..Len(df.rows) |->
                 [cl \in (DOMAIN df.rows[i]) \ {column} |-> df.rows[i][cl]]]]

ColumnFamily ==
    {Workbook(Without(DefaultService, cl), DefaultScreen, DefaultPatient, DefaultVisit) :
        cl \in Range(ServiceCols)}
    \cup {Workbook(DefaultService, Without(DefaultScreen, cl), DefaultPatient, DefaultVisit) :
        cl \in Range(ScreenCols)}
    \cup {Workbook(DefaultService, DefaultScreen, Without(DefaultPatient, cl), DefaultVisit) :
        cl \in Range(PatientCols)}
    \cup {Workbook(DefaultService, DefaultScreen, DefaultPatient, Without(DefaultVisit, cl)) :
        cl \in Range(VisitCols)}
    \cup {Workbook(DefaultService, DefaultScreen,
                   SetCol(SetCol(DefaultPatient, "TBO2a_D", <<d>>), "BC", <<b>>),
                   DefaultVisit) : d \in {Num(1), NaN}, b \in {Num(1), Num(0)}}

Workbooks == JoinFamily \cup NameFamily \cup ScreenFamily \cup PatientFamily
             \cup VisitFamily \cup RegimenFamily \cup ColumnFamily

Init ==
    /\ xls \in Workbooks
    /\ heap = <<>>
    /\ df_service = 0
    /\ df_screen = 0
    /\ df_patient = 0
    /\ df_visit = 0
    /\ state_township_dict = <<>>
    /\ var_values_dict = <<>>
    /\ results = <<>>
    /\ pc = "start"
    /\ rule = 0
    /\ exc = NoExc
    /\ returned = <<>>

Spec == Init /\ [][Next]_vars

(***************************************************************************)
(* Properties.                                                             *)
(***************************************************************************)
Terminal == pc \in {"returned", "raised"}

\* the computed tables of the returned mapping
ScreenOut == heap[returned["Screening_with_computed"].ref]
PatientOut == heap[returned["Patient_with_computed"].ref]

ColumnsPresent(i) == \A sc \in RuleReads[i] : HasCol(xls[sc[1]], sc[2])

\* C1: when a rule references a column absent from its table, the run
\* still returns, and its mapping holds the entry of every other rule.
C1_FailSoft ==
    (Terminal /\ \E i \in 1..Len(RuleNames) : ~ColumnsPresent(i))
        => /\ pc = "returned"
           /\ \A i \in 1..Len(RuleNames) :
                 ColumnsPresent(i) => RuleNames[i] \in DOMAIN returned

\* C2: a field validator whose columns are present never raises: whatever
\* the cells hold, it gives a violation set (an empty or whitespace-only
\* name gives no violation).
C2_ValidatorsTotal ==
    \A i \in 1..Len(RuleNames) :
        (pc = "raised" /\ exc.at = RuleNames[i]) => ~ColumnsPresent(i)

\* C3: every violation set holds only labels of rows of its source table,
\* each at most once.
C3_ViolationSetWellFormed ==
    \A i \in 1..Len(RuleNames) :
        RuleNames[i] \in DOMAIN results =>
            LET idx == results[RuleNames[i]].idx
            IN  /\ \A a \in 1..Len(idx) : idx[a] \in 1..Len(xls[RuleSheet[i]].rows)
                /\ \A a, b \in 1..Len(idx) : a # b => idx[a] # idx[b]

\* a returned run in which one violation set holds both rows of the
\* Screening table and another holds the first row alone
C3_Witness ==
    /\ pc = "returned"
    /\ results["Screening_invalid_township"].idx = <<1, 2>>
    /\ results["Screening_invalid_state"].idx = <<1>>

\* C4: after a pipeline function returns, the table passed in is as it was
\* before the call, and the table returned is another object.
C4_PrivateCopy ==
    /\ pc \in {"patient", "store", "returned"} =>
          heap[ScreenArg] = xls["Screening"] /\ df_screen # ScreenArg
    /\ pc \in {"store", "returned"} =>
          heap[PatientArg] = xls["Patient data"] /\ df_patient # PatientArg

IsAfter(sd, ed) == sd.k = "ts" /\ ed.k = "ts" /\ sd.n > ed.n

\* C5: a Screening record is marked "Ongoing TB case" exactly when a
\* Patient record with its registration number has an enrollment date that
\* the screening date is strictly after; otherwise it holds "".
C5_OngoingExact ==
    pc = "returned" =>
        /\ Len(ScreenOut.rows) = Len(xls["Screening"].rows)
        /\ \A i \in 1..Len(ScreenOut.rows) :
              LET srow == xls["Screening"].rows[i]
                  prows == xls["Patient data"].rows
                  ongoing == \E p \in 1..Len(prows) :
                      /\ prows[p]["Registration number"] = srow["Registration number"]
                      /\ notnull(prows[p]["Enrolled Date"])
                      /\ IsAfter(srow["Screening Date"], prows[p]["Enrolled Date"])
              IN  ScreenOut.rows[i]["Ongoing TB case check"] =
                      IF ongoing THEN Str("Ongoing TB case") ELSE Str("")

\* C6: every record of the computed Patient table carries Channel_Screening,
\* BC_Screening and TB Detected_Screening: the value of the Screening record
\* with its registration number, missing when there is none, "" when the
\* Screening table is empty.
JoinValueOk(prow, column, source) ==
    /\ column \in DOMAIN prow
    /\ LET srows == ScreenOut.rows
           hits == {s \in 1..Len(srows) :
                       srows[s]["Registration number"] = prow["Registration number"]}
       IN  IF srows = <<>> THEN prow[column] = Str("")
           ELSE IF hits = {} THEN prow[column] = NaN
           ELSE \E s \in hits : prow[column] = srows[s][source]

C6_JoinColumns ==
    pc = "returned" =>
        \A i \in 1..Len(PatientOut.rows) :
            /\ JoinValueOk(PatientOut.rows[i], "Channel_Screening", "Channel")
            /\ JoinValueOk(PatientOut.rows[i], "BC_Screening", "Bact confirmed TB")
            /\ JoinValueOk(PatientOut.rows[i], "TB Detected_Screening", "TB Detected")

\* C7: Regimen check is "Fail" exactly when regimen is "IR" and the patient
\* type is neither "New" nor empty or missing, or regimen is "CR" and the age
\* is 15 or more or does not parse; otherwise it is "OK".
RegimenFails(row) ==
    \/ /\ row["TB_Treatment Regimen"] = Str("IR")
       /\ row["TB_Type of patient"] \notin {Str("New"), Str(""), NaN}
    \/ /\ row["TB_Treatment Regimen"] = Str("CR")
       /\ LET age == float(row["Age_Year"])
          IN  ~age.ok \/ (~age.nan /\ age.v >= 15)

C7_RegimenExact ==
    pc = "returned" =>
        \A i \in 1..Len(PatientOut.rows) :
            PatientOut.rows[i]["Regimen check"] =
                IF RegimenFails(PatientOut.rows[i]) THEN Str("Fail") ELSE Str("OK")

\* C8: a record is flagged as a duplicate exactly when another record of its
\* table has the same values on the key columns; this holds of the two
\* duplicate rules and of the Duplicate check column.
SharesKey(df, columns, i) ==
    \E j \in 1..Len(df.rows) :
        j # i /\ \A a \in 1..Len(columns) : df.rows[j][columns[a]] = df.rows[i][columns[a]]

FlagsExactly(name, df, columns) ==
    name \in DOMAIN results =>
        \A i \in 1..Len(df.rows) :
            (i \in Range(results[name].idx)) <=> SharesKey(df, columns, i)

C8_DuplicatesSymmetric ==
    /\ FlagsExactly("Screening_duplicates", xls["Screening"], DupCols)
    /\ FlagsExactly("Patient_invalid_registration_number_duplicate",
                    xls["Patient data"], <<"Registration number">>)
    /\ pc = "returned" =>
          \A i \in 1..Len(ScreenOut.rows) :
              ScreenOut.rows[i]["Duplicate check"] =
                  IF SharesKey(ScreenOut, DupCols, i)
                  THEN Str("To recheck for duplication") ELSE Str("")

\* a returned run whose Screening table holds two records with one key,
\* both flagged by the rule and in the column
C8_Witness ==
    /\ pc = "returned"
    /\ results["Screening_duplicates"].idx = <<1, 2>>
    /\ ScreenOut.rows[1]["Duplicate check"] = Str("To recheck for duplication")
    /\ ScreenOut.rows[2]["Duplicate check"] = Str("To recheck for duplication")

\* C9: in the computed Patient table TBDT_3c is 1 exactly when TBDT_1 is 1
\* and the Channel_Screening value of the record is "Volunteer" or "ICHV".
C9_ChannelConsistent ==
    pc = "returned" =>
        \A i \in 1..Len(PatientOut.rows) :
            LET row == PatientOut.rows[i]
            IN  (row["TBDT_3c"] = Num(1)) <=>
                    (row["TBDT_1"] = Num(1)
                     /\ row["Channel_Screening"] \in {Str("Volunteer"), Str("ICHV")})

\* C10: each computed table holds one record per input record, in the input
\* order (record i keeps the input cells of input record i; Channel_Screening
\* is left out, being a column the pipeline itself writes), and the join value
\* of Screening record i comes from a Patient record with its registration
\* number.
KeepsRecords(out, in) ==
    /\ Len(out.rows) = Len(in.rows)
    /\ \A i \in 1..Len(in.rows) :
          \A cl \in (DOMAIN in.rows[i]) \ {"Channel_Screening"} :
              out.rows[i][cl] = in.rows[i][cl]

C10_RecordsPreserved ==
    pc = "returned" =>
        /\ KeepsRecords(ScreenOut, xls["Screening"])
        /\ KeepsRecords(PatientOut, xls["Patient data"])
        /\ \A i \in 1..Len(ScreenOut.rows) :
              ScreenOut.rows[i]["Ongoing TB case check"] = Str("Ongoing TB case") =>
                  \E p \in 1..Len(xls["Patient data"].rows) :
                      /\ xls["Patient data"].rows[p]["Registration number"]
                            = ScreenOut.rows[i]["Registration number"]
                      /\ IsAfter(ScreenOut.rows[i]["Screening Date"],
                                 xls["Patient data"].rows[p]["Enrolled Date"])

====
